---- MODULE Spec2Model ----
(***************************************************************************)
(* Model of reindex_concurrently.py: the start-up (log file, connection),  *)
(* the driver loops, process_table, process_index (one step per statement  *)
(* sent through dbquery), the SIGINT handler, the exits of the process and *)
(* the PostgreSQL session the statements act on.                           *)
(*                                                                         *)
(* Index names are sequences of tokens: <<"ix">> is the index ix and       *)
(* <<"ix", "_new">> is ix_new, so that name + "_new" is Append and ORDER   *)
(* BY indexname is the lexicographic order of the sequences.               *)
(***************************************************************************)
EXTENDS Integers, Sequences, FiniteSets, TLC

\* ------------------------------------------------------------------ bounds
\* args.run_min * 60, in seconds after start_time (start_time is 0)
HaltTime == 1
\* the largest args.retries
MaxRetries == 2
\* the largest args.pause_time
MaxPause == 1
\* statements of one run that the server rejects or cancels for a reason
\* outside the catalog (lock timeout, deadlock, statement timeout, ...)
MaxFaults == 1
\* pg_relation_size of a freshly built index, and what bloat adds to it
FreshSize == 1
Bloat == 1

\* the grace period added to the statement timeout
Grace == 30

\* the clock is advanced by Tick up to the deadline (a cancelled statement
\* and a pause move it further); past the deadline every check of the
\* clock has the same result
MaxNow == HaltTime

\* ------------------------------------------------------------------- names
ix == <<"ix">>
pk == <<"pk">>
TableName == "t"
\* a table of the --tables list that has no index
OtherTable == "u"
NoName == <<>>

\* idx_name + "_new"
NewName(n) == Append(n, "_new")

Originals == {ix, pk}

\* collation of the tokens of a name ('_' sorts before the letters)
TokOrder == <<"_new", "ix", "pk">>

TokRank(tok) == CHOOSE i \in 1..Len(TokOrder) : TokOrder[i] = tok

RECURSIVE NameLess(_, _)
NameLess(a, b) ==
    IF a = <<>> THEN b # <<>>
    ELSE IF b = <<>> THEN FALSE
    ELSE IF Head(a) # Head(b) THEN TokRank(Head(a)) < TokRank(Head(b))
    ELSE NameLess(Tail(a), Tail(b))

\* the names of S in ascending order
SortedNames(S) ==
    CHOOSE s \in [1..Cardinality(S) -> S] :
        /\ \A i, j \in 1..Cardinality(S) : i < j => NameLess(s[i], s[j])

\* -------------------------------------------------------------- statements
Stmt(op, name, arg) == [op |-> op, name |-> name, arg |-> arg]

LookupOps == {"RESOLVE", "FETCHDEF", "VALIDITY", "SIZE", "LIST"}
MutatingOps ==
    {"SET", "DROP_IF_EXISTS", "CREATE", "ANALYSE", "BEGIN", "COMMIT",
     "DROP_INDEX", "DROP_CONSTRAINT", "RENAME", "ADD_PK"}

\* ------------------------------------------------------------------- state
VARIABLES
    \* configuration (parsed arguments)
    args, indexlist, tablelist, ignorelist,
    \* the database: committed catalog, the session's own view of it,
    \* transaction block state, session statement_timeout (0 = none)
    catalog, session, txstate, statement_timeout,
    \* time.time() - start_time
    now,
    \* statements passed to dbquery for the current unit of work, outcome of
    \* the last executed statement, number of rejected/cancelled statements
    log, sqlstate, faults,
    \* globals
    time_exit, tabcount, idxcount, idxcount_success, idxcount_ignored,
    idxcount_retries, idxcount_notfound, total_idx_size_before,
    total_idx_size_after,
    \* locals of process_index
    idx_name, table, is_pk, idx_name_new, idx_create_new, attempt,
    idx_valid, idx_size_before, idx_size_after,
    \* driver: next position in indexlist / tablelist, the rest of the
    \* current table's idx_names, and the control position
    ipos, tpos, idx_names, pc

cfgvars == <<args, indexlist, tablelist, ignorelist>>
dbvars == <<catalog, session, txstate, statement_timeout, now, log, sqlstate, faults>>
counters ==
    <<time_exit, tabcount, idxcount, idxcount_success, idxcount_ignored,
      idxcount_retries, idxcount_notfound, total_idx_size_before,
      total_idx_size_after>>
locals ==
    <<idx_name, table, is_pk, idx_name_new, idx_create_new, attempt,
      idx_valid, idx_size_before, idx_size_after>>
drivervars == <<ipos, tpos, idx_names>>
vars == <<cfgvars, dbvars, counters, locals, drivervars, pc>>

halt_time == HaltTime

\* ---------------------------------------------------------------- catalog
Entry(name, tab, valid, primary, size) ==
    [name |-> name, tab |-> tab, valid |-> valid, primary |-> primary, size |-> size]

Exists(cat, name) == \E e \in cat : e.name = name

Get(cat, name) == CHOOSE e \in cat : e.name = name

HasPrimaryKey(cat, tab) == \E e \in cat : e.tab = tab /\ e.primary

\* the catalog before the run: table t with primary key pk and index ix,
\* plus the invalid replacements an interrupted earlier run left behind
InitCatalog(stale) ==
    { Entry(pk, TableName, TRUE, TRUE, FreshSize + Bloat),
      Entry(ix, TableName, TRUE, FALSE, FreshSize + Bloat) }
    \cup { Entry(n, TableName, FALSE, FALSE, FreshSize) : n \in stale }

\* The effect of statement q on the catalog view cat when the server runs
\* it: the new view, and whether the server reports an error.  built is
\* the result of a build: [valid, size].
Apply(q, cat, built) ==
    CASE q.op = "DROP_IF_EXISTS" ->
            IF ~Exists(cat, q.name) THEN [cat |-> cat, ok |-> TRUE]
            ELSE IF Get(cat, q.name).primary THEN [cat |-> cat, ok |-> FALSE]
            ELSE [cat |-> cat \ {Get(cat, q.name)}, ok |-> TRUE]
      [] q.op = "DROP_INDEX" ->
            IF Exists(cat, q.name) /\ ~Get(cat, q.name).primary
            THEN [cat |-> cat \ {Get(cat, q.name)}, ok |-> TRUE]
            ELSE [cat |-> cat, ok |-> FALSE]
      [] q.op = "CREATE" ->
            IF Exists(cat, q.name) THEN [cat |-> cat, ok |-> FALSE]
            ELSE [cat |-> cat \cup {Entry(q.name, q.arg, built.valid, FALSE, built.size)},
                  ok |-> built.valid]
      [] q.op = "DROP_CONSTRAINT" ->
            IF Exists(cat, q.name) /\ Get(cat, q.name).primary /\ Get(cat, q.name).tab = q.arg
            THEN [cat |-> cat \ {Get(cat, q.name)}, ok |-> TRUE]
            ELSE [cat |-> cat, ok |-> FALSE]
      [] q.op = "RENAME" ->
            IF Exists(cat, q.name) /\ ~Exists(cat, q.arg)
            THEN [cat |-> (cat \ {Get(cat, q.name)})
                          \cup {[Get(cat, q.name) EXCEPT !.name = q.arg]},
                  ok |-> TRUE]
            ELSE [cat |-> cat, ok |-> FALSE]
      [] q.op = "ADD_PK" ->
            IF /\ Exists(cat, q.name)
               /\ Get(cat, q.name).tab = q.arg
               /\ Get(cat, q.name).valid
               /\ ~HasPrimaryKey(cat, q.arg)
            THEN [cat |-> (cat \ {Get(cat, q.name)})
                          \cup {[Get(cat, q.name) EXCEPT !.primary = TRUE]},
                  ok |-> TRUE]
            ELSE [cat |-> cat, ok |-> FALSE]
      [] q.op = "SIZE" -> [cat |-> cat, ok |-> Exists(cat, q.name)]
      [] OTHER -> [cat |-> cat, ok |-> TRUE]

\* what the server can do with a statement besides running it: out is
\* "ok" (run it), "error" (reject it) or "cancel" (statement timeout);
\* built is the index a build leaves in the catalog, if any
NoBuild == [valid |-> FALSE, size |-> 0]

Built(valid, size) == [valid |-> valid, size |-> size]

Outcome(out, built) == [out |-> out, built |-> built]

FaultsLeft == faults < MaxFaults

\* mutant of executes: the dry-run switch is ignored
executes_always(ondryrun) == TRUE

\* if not args.dryrun or ondryrun: the statement is sent to the server
executes(ondryrun) == ~args.dryrun \/ ondryrun

Outcomes(q, ondryrun) ==
    IF ~executes(ondryrun) THEN {Outcome("ok", NoBuild)}
    ELSE (IF FaultsLeft THEN {Outcome("error", NoBuild)} ELSE {})
         \cup (IF FaultsLeft /\ statement_timeout > 0
               THEN {Outcome("cancel", NoBuild)}
                    \cup (IF q.op = "CREATE"
                          THEN {Outcome("cancel", Built(FALSE, FreshSize))} ELSE {})
               ELSE {})
         \cup (IF q.op = "CREATE"
               THEN {Outcome("ok", Built(TRUE, FreshSize)),
                     Outcome("ok", Built(FALSE, FreshSize))}
               ELSE {Outcome("ok", NoBuild)})

\* The session after the server has received q with outcome o.
Server(q, o) ==
    LET same == [catalog |-> catalog, session |-> session, txstate |-> txstate,
                 timeout |-> statement_timeout, ok |-> TRUE]
        failed == [same EXCEPT !.ok = FALSE,
                               !.txstate = IF txstate = "open" THEN "aborted" ELSE txstate]
        r == Apply(q, session, o.built)
    IN  IF q.op = "COMMIT" THEN
            IF txstate = "open" /\ o.out = "ok"
            THEN [same EXCEPT !.catalog = session, !.txstate = "none"]
            ELSE [same EXCEPT !.session = catalog, !.txstate = "none",
                              !.ok = (o.out = "ok")]
        ELSE IF txstate = "aborted" THEN failed
        ELSE IF o.out = "cancel" /\ q.op = "CREATE" /\ o.built # NoBuild THEN
            IF Exists(session, q.name) THEN failed
            ELSE [failed EXCEPT !.session = r.cat,
                                !.catalog = IF txstate = "none" THEN r.cat ELSE catalog]
        ELSE IF o.out # "ok" THEN failed
        ELSE IF q.op = "BEGIN" THEN [same EXCEPT !.txstate = "open"]
        ELSE IF q.op = "SET" THEN
            IF q.arg < 0 THEN failed ELSE [same EXCEPT !.timeout = q.arg]
        ELSE IF r.ok \/ q.op = "CREATE"
            THEN [same EXCEPT !.session = r.cat,
                              !.catalog = IF txstate = "none" THEN r.cat ELSE catalog,
                              !.ok = r.ok,
                              !.txstate = IF ~r.ok /\ txstate = "open"
                                          THEN "aborted" ELSE txstate]
        ELSE failed

\* an entry of log: the statement and whether it was executed (sent to
\* the server) or only printed
Logged(q, exec) == [op |-> q.op, name |-> q.name, arg |-> q.arg, exec |-> exec]

\* dbquery(cur, querystring, ondryrun) with the server's outcome o
dbquery(q, ondryrun, o) ==
    IF executes(ondryrun) THEN
        LET r == Server(q, o) IN
        /\ catalog' = r.catalog
        /\ session' = r.session
        /\ txstate' = r.txstate
        /\ statement_timeout' = r.timeout
        /\ sqlstate' = IF r.ok THEN "ok" ELSE IF o.out = "cancel" THEN "cancel" ELSE "error"
        /\ faults' = IF o.out = "ok" THEN faults ELSE faults + 1
        /\ now' = IF o.out = "cancel" THEN now + statement_timeout ELSE now
        /\ log' = Append(log, Logged(q, TRUE))
    ELSE
        /\ log' = Append(log, Logged(q, FALSE))
        /\ UNCHANGED <<catalog, session, txstate, statement_timeout, sqlstate, faults, now>>

\* ------------------------------------------------------------------- Init
\* the --indexes and --tables lists of a run, as <<indexlist, tablelist>>
Workloads ==
    { <<<<pk, ix>>, <<>>>>,
      <<<<>>, <<TableName>>>>,
      <<<<ix>>, <<OtherTable, TableName>>>> }

\* the --ignore-indexes list of a run
IgnoreLists == {{}, {ix}, {NewName(ix)}}

StaleSets == {{}, {NewName(ix)}}

NoStmt == Stmt("NONE", NoName, 0)

InitLocals ==
    /\ idx_name = NoName
    /\ table = ""
    /\ is_pk = FALSE
    /\ idx_name_new = NoName
    /\ idx_create_new = NoStmt
    /\ attempt = 0
    /\ idx_valid = FALSE
    /\ idx_size_before = 0
    /\ idx_size_after = 0

Init ==
    /\ args \in [dryrun : BOOLEAN, enforcetime : BOOLEAN,
                  retries : 0..MaxRetries, pause_time : {0, MaxPause}]
    /\ \E w \in Workloads : indexlist = w[1] /\ tablelist = w[2]
    /\ ignorelist \in IgnoreLists
    /\ catalog \in {InitCatalog(stale) : stale \in StaleSets}
    /\ session = catalog
    /\ txstate = "none"
    /\ statement_timeout = 0
    /\ now = 0
    /\ log = <<>>
    /\ sqlstate = "ok"
    /\ faults = 0
    /\ time_exit = FALSE
    /\ tabcount = 0
    /\ idxcount = 0
    /\ idxcount_success = 0
    /\ idxcount_ignored = 0
    /\ idxcount_retries = 0
    /\ idxcount_notfound = 0
    /\ total_idx_size_before = 0
    /\ total_idx_size_after = 0
    /\ InitLocals
    /\ ipos = 1
    /\ tpos = 1
    /\ idx_names = <<>>
    /\ pc = "start"

\* ---------------------------------------------------------------- startup
\* the positions at which the process has ended
Terminal == {"done", "crashed", "no_logfile", "no_connection", "interrupted"}

\* start logging to log file, if used: sys.exit(1) when it cannot be opened
open_logfile ==
    /\ pc = "start"
    /\ \E opened \in BOOLEAN : pc' = IF opened THEN "connect" ELSE "no_logfile"
    /\ UNCHANGED <<cfgvars, dbvars, counters, locals, drivervars>>

\* conn = dbconnect(...): exit() when it raises
connect ==
    /\ pc = "connect"
    /\ \E connected \in BOOLEAN : pc' = IF connected THEN "main" ELSE "no_connection"
    /\ UNCHANGED <<cfgvars, dbvars, counters, locals, drivervars>>

\* signal_handler: SIGINT closes the connection and exits.  The handler
\* runs between two statements of the script, so what the statements so
\* far committed stays and an open transaction is rolled back.
signal_handler ==
    /\ pc \notin Terminal
    /\ pc' = "interrupted"
    /\ session' = catalog
    /\ txstate' = "none"
    /\ UNCHANGED <<cfgvars, catalog, statement_timeout, now, log, sqlstate,
                   faults, counters, locals, drivervars>>

\* the exit status of the process: sys.exit(0) after the summary and in
\* signal_handler, exit() after a failed connect, sys.exit(1) without the
\* log file, and 1 from the interpreter for an uncaught exception
\* (-1: still running)
exit_code ==
    CASE pc \in {"done", "no_connection", "interrupted"} -> 0
      [] pc \in {"no_logfile", "crashed"} -> 1
      [] OTHER -> -1

\* ----------------------------------------------------------------- driver
\* the driver loops: every name of indexlist, then every table of
\* tablelist, each table's idx_names in order
InIndexLoop == ipos <= Len(indexlist)
InTableLoop == ~InIndexLoop /\ idx_names # <<>>
\* mutant of NextIdx: the lists are walked from their end
NextIdx_last ==
    IF InIndexLoop THEN indexlist[Len(indexlist) - ipos + 1]
    ELSE idx_names[Len(idx_names)]

\* for idx in indexlist / for idx in idx_names: the next element
NextIdx == IF InIndexLoop THEN indexlist[ipos] ELSE Head(idx_names)

\* mutant of Expired: the deadline itself is not yet expiry
Expired_late == now > halt_time

\* time.time() >= halt_time
Expired == now >= halt_time

\* process_index(idx_name), up to the ignore check
process_index ==
    /\ pc = "main"
    /\ InIndexLoop \/ InTableLoop
    /\ ipos' = IF InIndexLoop THEN ipos + 1 ELSE ipos
    /\ idx_names' = IF InIndexLoop THEN idx_names ELSE Tail(idx_names)
    /\ idx_name' = NextIdx
    /\ IF Expired THEN
            /\ time_exit' = TRUE
            /\ pc' = "return"
            /\ UNCHANGED <<idxcount, idxcount_ignored, log>>
       ELSE
            /\ idxcount' = idxcount + 1
            /\ log' = <<>>
            /\ IF NextIdx \in ignorelist
               THEN idxcount_ignored' = idxcount_ignored + 1 /\ pc' = "return"
               ELSE idxcount_ignored' = idxcount_ignored /\ pc' = "set_timeout"
            /\ UNCHANGED time_exit
    /\ UNCHANGED <<cfgvars, catalog, session, txstate, statement_timeout, now,
                   sqlstate, faults, tabcount, idxcount_success, idxcount_retries,
                   idxcount_notfound, total_idx_size_before, total_idx_size_after,
                   table, is_pk, idx_name_new, idx_create_new, attempt, idx_valid,
                   idx_size_before, idx_size_after, tpos>>

\* a statement of process_index that only goes through dbquery
Step(from, to, q) ==
    /\ pc = from
    /\ \E o \in Outcomes(q, FALSE) : dbquery(q, FALSE, o)
    /\ pc' = to
    /\ UNCHANGED <<cfgvars, counters, locals, drivervars>>

\* figure out statement_timeout
timeout_secs == (halt_time - now) + Grace

set_timeout ==
    IF args.enforcetime
    THEN Step("set_timeout", "resolve", Stmt("SET", NoName, timeout_secs))
    ELSE /\ pc = "set_timeout"
         /\ pc' = "resolve"
         /\ UNCHANGED <<cfgvars, dbvars, counters, locals, drivervars>>

\* rows of the catalog lookups
idx_info == { e \in session : e.name = idx_name }

\* fetch and extract details
resolve ==
    /\ pc = "resolve"
    /\ \E o \in Outcomes(Stmt("RESOLVE", idx_name, 0), TRUE) :
            dbquery(Stmt("RESOLVE", idx_name, 0), TRUE, o)
    /\ IF sqlstate' # "ok" THEN
            /\ pc' = "crashed"
            /\ UNCHANGED <<idxcount_notfound, table, is_pk, idx_name_new>>
       ELSE IF Cardinality(idx_info) # 1 THEN
            /\ idxcount_notfound' = idxcount_notfound + 1
            /\ pc' = "return"
            /\ UNCHANGED <<table, is_pk, idx_name_new>>
       ELSE
            /\ table' = Get(session, idx_name).tab
            /\ is_pk' = Get(session, idx_name).primary
            /\ idx_name_new' = NewName(idx_name)
            /\ pc' = "fetchdef"
            /\ UNCHANGED idxcount_notfound
    /\ UNCHANGED <<cfgvars, time_exit, tabcount, idxcount, idxcount_success,
                   idxcount_ignored, idxcount_retries, total_idx_size_before,
                   total_idx_size_after, idx_name, idx_create_new, attempt,
                   idx_valid, idx_size_before, idx_size_after, drivervars>>

\* indexdef_new: regexp_replace(indexdef, '(.*)INDEX (.*) ON(.*)',
\*                              '\\1INDEX CONCURRENTLY \\2_new ON\\3')
indexdef_new(e) == Stmt("CREATE", Append(e.name, "_new"), e.tab)

fetchdef ==
    /\ pc = "fetchdef"
    /\ \E o \in Outcomes(Stmt("FETCHDEF", idx_name, 0), TRUE) :
            dbquery(Stmt("FETCHDEF", idx_name, 0), TRUE, o)
    /\ IF sqlstate' # "ok" \/ idx_info = {} THEN
            /\ pc' = "crashed"
            /\ UNCHANGED <<idx_create_new, attempt>>
       ELSE
            /\ idx_create_new' = indexdef_new(Get(session, idx_name))
            /\ attempt' = 1
            /\ pc' = "loop"
    /\ UNCHANGED <<cfgvars, counters, idx_name, table, is_pk, idx_name_new,
                   idx_valid, idx_size_before, idx_size_after, drivervars>>

\* mutant of idx_drop_if_exists_query: the attempt opens with a statement
\* that drops nothing
idx_drop_if_exists_query_none == Stmt("ANALYSE", NoName, table)

\* DROP INDEX CONCURRENTLY IF EXISTS idx_name_new
idx_drop_if_exists_query == Stmt("DROP_IF_EXISTS", idx_name_new, 0)

\* for attempt in range(1, args.retries + 1): the deadline check at the
\* top of the loop body, then the defensive drop of the replacement
loop ==
    /\ pc = "loop"
    /\ IF attempt > args.retries THEN
            /\ pc' = "return"
            /\ UNCHANGED <<dbvars, time_exit>>
       ELSE IF Expired THEN
            /\ time_exit' = TRUE
            /\ pc' = "return"
            /\ UNCHANGED dbvars
       ELSE
            /\ \E o \in Outcomes(idx_drop_if_exists_query, FALSE) :
                    dbquery(idx_drop_if_exists_query, FALSE, o)
            /\ pc' = "build"
            /\ UNCHANGED time_exit
    /\ UNCHANGED <<cfgvars, tabcount, idxcount, idxcount_success, idxcount_ignored,
                   idxcount_retries, idxcount_notfound, total_idx_size_before,
                   total_idx_size_after, locals, drivervars>>

\* dbquery(cur, idx_create_new)
build == Step("build", "validity", idx_create_new)

\* mutant of after_validity: the swap is entered whatever the check said
after_validity_swap(valid) == "size_before"

\* if idx_valid: ... else: ...
after_validity(valid) == IF valid THEN "size_before" ELSE "drop_invalid"

\* rows of idx_valid_query
idx_valid_rows == { e \in session : e.name = idx_name_new }

\* check if valid
validity ==
    /\ pc = "validity"
    /\ \E o \in Outcomes(Stmt("VALIDITY", idx_name_new, 0), TRUE) :
            dbquery(Stmt("VALIDITY", idx_name_new, 0), TRUE, o)
    /\ IF args.dryrun THEN
            /\ idx_valid' = TRUE
            /\ pc' = after_validity(idx_valid')
       ELSE IF sqlstate' # "ok" \/ idx_valid_rows = {} THEN
            /\ pc' = "crashed"
            /\ UNCHANGED idx_valid
       ELSE
            /\ idx_valid' = Get(session, idx_name_new).valid
            /\ pc' = after_validity(idx_valid')
    /\ UNCHANGED <<cfgvars, counters, idx_name, table, is_pk, idx_name_new,
                   idx_create_new, attempt, idx_size_before, idx_size_after,
                   drivervars>>

\* mutant of add_size: the total is assigned, not added to
add_size_assign(total, size) == size

\* total_idx_size_before += idx_size_before (and the same for after)
add_size(total, size) == total + size

\* get reindex stats: SELECT pg_relation_size(idx_name)
size_before ==
    /\ pc = "size_before"
    /\ \E o \in Outcomes(Stmt("SIZE", idx_name, 0), TRUE) :
            dbquery(Stmt("SIZE", idx_name, 0), TRUE, o)
    /\ IF sqlstate' # "ok" THEN
            /\ pc' = "crashed"
            /\ UNCHANGED <<idx_size_before, total_idx_size_before>>
       ELSE
            /\ idx_size_before' = Get(session, idx_name).size
            /\ total_idx_size_before' = add_size(total_idx_size_before, idx_size_before')
            /\ pc' = "size_after"
    /\ UNCHANGED <<cfgvars, time_exit, tabcount, idxcount, idxcount_success,
                   idxcount_ignored, idxcount_retries, idxcount_notfound,
                   total_idx_size_after, idx_name, table, is_pk, idx_name_new,
                   idx_create_new, attempt, idx_valid, idx_size_after, drivervars>>

\* SELECT pg_relation_size(idx_name_new), not executed on dry-run
size_after ==
    /\ pc = "size_after"
    /\ \E o \in Outcomes(Stmt("SIZE", idx_name_new, 0), FALSE) :
            dbquery(Stmt("SIZE", idx_name_new, 0), FALSE, o)
    /\ IF args.dryrun THEN
            /\ idx_size_after' = idx_size_before
            /\ total_idx_size_after' = add_size(total_idx_size_after, idx_size_after')
            /\ pc' = "analyse"
       ELSE IF sqlstate' # "ok" THEN
            /\ pc' = "crashed"
            /\ UNCHANGED <<idx_size_after, total_idx_size_after>>
       ELSE
            /\ idx_size_after' = Get(session, idx_name_new).size
            /\ total_idx_size_after' = add_size(total_idx_size_after, idx_size_after')
            /\ pc' = "analyse"
    /\ UNCHANGED <<cfgvars, time_exit, tabcount, idxcount, idxcount_success,
                   idxcount_ignored, idxcount_retries, idxcount_notfound,
                   total_idx_size_before, idx_name, table, is_pk, idx_name_new,
                   idx_create_new, attempt, idx_valid, idx_size_before, drivervars>>

\* mutant of swap_protocol: every index is swapped as a plain index
swap_protocol_plain == "drop_old"

\* the statistics refresh before either swap; the swap is chosen by is_pk
swap_protocol == IF is_pk THEN "begin" ELSE "drop_old"

analyse == Step("analyse", swap_protocol, Stmt("ANALYSE", NoName, table))

\* is valid, is pk: drop constraint, rename and add as new pk
begin == Step("begin", "drop_constraint", Stmt("BEGIN", NoName, 0))

drop_constraint ==
    Step("drop_constraint", "rename_pk", Stmt("DROP_CONSTRAINT", idx_name, table))

rename_pk == Step("rename_pk", "add_pk", Stmt("RENAME", idx_name_new, idx_name))

add_pk == Step("add_pk", "commit", Stmt("ADD_PK", idx_name, table))

commit == Step("commit", "analyse_done", Stmt("COMMIT", NoName, 0))

\* is valid: drop old and rename
drop_old == Step("drop_old", "rename", Stmt("DROP_INDEX", idx_name, 0))

rename == Step("rename", "analyse_done", Stmt("RENAME", idx_name_new, idx_name))

analyse_done == Step("analyse_done", "finish", Stmt("ANALYSE", NoName, table))

\* time.sleep(args.pause_time) when args.pause_time > 0
sleep == IF args.pause_time > 0 THEN now + args.pause_time ELSE now

\* mutant of after_success: the loop goes on after a success
after_success_continue == "loop"

\* break: leaving the loop ends process_index
after_success == "return"

\* pause, count the success and break
finish ==
    /\ pc = "finish"
    /\ now' = sleep
    /\ idxcount_success' = idxcount_success + 1
    /\ pc' = after_success
    /\ UNCHANGED <<cfgvars, catalog, session, txstate, statement_timeout, log,
                   sqlstate, faults, time_exit, tabcount, idxcount, idxcount_ignored,
                   idxcount_retries, idxcount_notfound, total_idx_size_before,
                   total_idx_size_after, locals, drivervars>>

\* mutant of idx_drop_new_query: the cleanup is skipped when nothing is there
idx_drop_new_query_if_exists == Stmt("DROP_IF_EXISTS", idx_name_new, 0)

\* DROP INDEX CONCURRENTLY idx_name_new
idx_drop_new_query == Stmt("DROP_INDEX", idx_name_new, 0)

\* invalid, drop and continue
drop_invalid == Step("drop_invalid", "retry", idx_drop_new_query)

retry ==
    /\ pc = "retry"
    /\ now' = sleep
    /\ idxcount_retries' = idxcount_retries + 1
    /\ attempt' = attempt + 1
    /\ pc' = "loop"
    /\ UNCHANGED <<cfgvars, catalog, session, txstate, statement_timeout, log,
                   sqlstate, faults, time_exit, tabcount, idxcount, idxcount_success,
                   idxcount_ignored, idxcount_notfound, total_idx_size_before,
                   total_idx_size_after, idx_name, table, is_pk, idx_name_new,
                   idx_create_new, idx_valid, idx_size_before, idx_size_after,
                   drivervars>>

\* process_index returns: its locals are discarded
return ==
    /\ pc = "return"
    /\ pc' = "main"
    /\ idx_name' = NoName
    /\ table' = ""
    /\ is_pk' = FALSE
    /\ idx_name_new' = NoName
    /\ idx_create_new' = NoStmt
    /\ attempt' = 0
    /\ idx_valid' = FALSE
    /\ idx_size_before' = 0
    /\ idx_size_after' = 0
    /\ log' = <<>>
    /\ sqlstate' = "ok"
    /\ UNCHANGED <<cfgvars, catalog, session, txstate, statement_timeout, now,
                   faults, counters, drivervars>>

\* rows of idx_names_query
table_indexes(tab) == { e.name : e \in { x \in session : x.tab = tab } }

\* process_table(table)
process_table ==
    /\ pc = "main"
    /\ ~InIndexLoop /\ idx_names = <<>> /\ tpos <= Len(tablelist)
    /\ tpos' = tpos + 1
    /\ IF Expired THEN
            /\ time_exit' = TRUE
            /\ pc' = "main"
            /\ UNCHANGED <<dbvars, tabcount, idx_names>>
       ELSE
            /\ tabcount' = tabcount + 1
            /\ \E o \in Outcomes(Stmt("LIST", NoName, tablelist[tpos]), TRUE) :
                    dbquery(Stmt("LIST", NoName, tablelist[tpos]), TRUE, o)
            /\ IF sqlstate' # "ok"
               THEN pc' = "crashed" /\ UNCHANGED idx_names
               ELSE pc' = "main"
                    /\ idx_names' = SortedNames(table_indexes(tablelist[tpos]))
            /\ UNCHANGED time_exit
    /\ UNCHANGED <<cfgvars, idxcount, idxcount_success, idxcount_ignored,
                   idxcount_retries, idxcount_notfound, total_idx_size_before,
                   total_idx_size_after, locals, ipos>>

\* conn.close() and the summary
close ==
    /\ pc = "main"
    /\ ~InIndexLoop /\ idx_names = <<>> /\ tpos > Len(tablelist)
    /\ pc' = "done"
    /\ UNCHANGED <<cfgvars, dbvars, counters, locals, drivervars>>

\* the clock
Tick ==
    /\ pc \notin Terminal
    /\ now < MaxNow
    /\ now' = now + 1
    /\ UNCHANGED <<cfgvars, catalog, session, txstate, statement_timeout, log,
                   sqlstate, faults, counters, locals, drivervars, pc>>

\* the steps of the script itself
Run ==
    \/ open_logfile
    \/ connect
    \/ process_index
    \/ set_timeout
    \/ resolve
    \/ fetchdef
    \/ loop
    \/ build
    \/ validity
    \/ size_before
    \/ size_after
    \/ analyse
    \/ begin
    \/ drop_constraint
    \/ rename_pk
    \/ add_pk
    \/ commit
    \/ drop_old
    \/ rename
    \/ analyse_done
    \/ finish
    \/ drop_invalid
    \/ retry
    \/ return
    \/ process_table
    \/ close

\* the script, a user interrupt and the passing of time
Next ==
    \/ Run
    \/ signal_handler
    \/ Tick

Spec == Init /\ [][Next]_vars

\* every statement, pause and system call of the script returns, so the
\* script always takes its next step; interrupts and the clock are not
\* forced
FairSpec == Spec /\ WF_vars(Run)

\* ------------------------------------------------------------------ claims
\* statements that change the database or the session
Mutating(q) == q.op \in MutatingOps

\* the statements of either swap protocol, for the index being processed
SwapStmt(q) ==
    \/ q.op \in {"DROP_CONSTRAINT", "RENAME", "ADD_PK"}
    \/ q.op = "DROP_INDEX" /\ q.name = idx_name

\* C1: in every state other sessions can observe, table t has a
\* primary-key constraint, whatever single swap statement (BEGIN included)
\* is rejected or cancelled and swallowed by dbquery.
C1_PrimaryKeyAlwaysObservable == HasPrimaryKey(catalog, TableName)

\* C2: whenever process_index returns, the original index and a valid
\* replacement <name>_new do not both exist.
C2_NoTwoLiveCopies ==
    (pc = "return" /\ idx_name_new # NoName) =>
        ~(/\ Exists(catalog, idx_name)
          /\ Exists(catalog, idx_name_new)
          /\ Get(catalog, idx_name_new).valid)

\* positions of log holding a statement of kind op
Positions(op) == { i \in 1..Len(log) : log[i].op = op }

Last(op) == IF Positions(op) = {} THEN 0
            ELSE CHOOSE i \in Positions(op) : \A j \in Positions(op) : j <= i

\* build statements and swaps (each swap protocol renames once) of the
\* index being processed
Builds == Cardinality(Positions("CREATE"))
Swaps == Cardinality(Positions("RENAME"))

\* C3: if the validity check returns true on attempt k <= retries, the
\* engine performs exactly one swap for that index and issues no build
\* statement after it (the builds issued are those of attempts 1..k).
C3_ValidMeansOneSwapNoMoreBuilds ==
    idx_valid =>
        /\ attempt \in 1..args.retries
        /\ Builds = attempt
        /\ Swaps <= 1
        /\ pc = "return" => Swaps = 1

C3_Witness ==
    /\ pc = "return" /\ idx_valid /\ ~args.dryrun
    /\ attempt = 2 /\ Builds = 2 /\ Swaps = 1

\* C4: a swap statement is passed to dbquery only after the validity
\* check of the same attempt returned true (on dry-run: was taken as
\* true); when every attempt was invalid no swap statement is issued.
C4_SwapOnlyAfterValid ==
    /\ \A i \in 1..Len(log) : SwapStmt(log[i]) =>
            /\ idx_valid
            /\ Last("CREATE") < Last("VALIDITY")
            /\ Last("VALIDITY") < i
            /\ log[i].exec => ~args.dryrun
    /\ (pc = "return" /\ ~idx_valid) => \A i \in 1..Len(log) : ~SwapStmt(log[i])

C4_Witness ==
    /\ pc = "return" /\ ~idx_valid /\ args.retries = 2 /\ attempt = 3
    /\ idxcount_retries >= 2
    /\ \A i \in 1..Len(log) : ~SwapStmt(log[i])

\* every attempt up to the retry limit was made and found invalid
Exhausted == ~idx_valid /\ args.retries >= 1 /\ attempt > args.retries

\* C5 as claimed: after exhausted retries <name>_new still exists when
\* process_index returns.
C5_StaleLeftBehind ==
    (pc = "return" /\ Exhausted) => Exists(catalog, idx_name_new)

\* C5 amended: every invalid attempt, the last included, ends with the drop
\* of <name>_new and nothing is issued after it; <name>_new is gone when
\* process_index returns unless that last drop was rejected or cancelled,
\* and what is left then is invalid.
C5_InvalidDroppedEachAttempt ==
    (pc = "return" /\ Exhausted) =>
        /\ log[Len(log)] = Logged(Stmt("DROP_INDEX", idx_name_new, 0), TRUE)
        /\ Cardinality({ i \in Positions("DROP_INDEX") : log[i].name = idx_name_new })
                = args.retries
        /\ sqlstate = "ok" => ~Exists(catalog, idx_name_new)
        /\ Exists(catalog, idx_name_new) => ~Get(catalog, idx_name_new).valid

C5_Witness ==
    /\ pc = "return" /\ Exhausted /\ args.retries = 2
    /\ ~Exists(catalog, idx_name_new)

\* C6: no mutating statement executed during the run targets a name of
\* the ignore list, whichever index is being processed.
C6_IgnoredNeverTargeted ==
    \A i \in 1..Len(log) :
        (Mutating(log[i]) /\ log[i].exec) =>
            /\ log[i].name \notin ignorelist
            /\ log[i].op = "RENAME" => log[i].arg \notin ignorelist

\* the counters of the run, without the time-exit flag
runcounts ==
    <<tabcount, idxcount, idxcount_success, idxcount_ignored, idxcount_retries,
      idxcount_notfound, total_idx_size_before, total_idx_size_after>>

\* C7: once the clock has reached the deadline, a call of process_index
\* or process_table passes no statement to dbquery and changes no counter,
\* it only sets the time-exit flag; and the top of the retry loop begins
\* no attempt (the steps are those of the script, not a user interrupt).
C7_NothingStartsAfterDeadline ==
    [][ (now >= halt_time /\ now' = now /\ pc' # "interrupted") =>
            /\ pc = "main" =>
                    /\ log' = log
                    /\ runcounts' = runcounts
                    /\ pc' \in {"return", "main", "done"}
                    /\ pc' # "done" => time_exit'
            /\ pc = "loop" =>
                    /\ log' = log
                    /\ runcounts' = runcounts
                    /\ pc' = "return"
                    /\ attempt <= args.retries => time_exit' ]_vars

\* an index whose second attempt was not begun because the deadline passed
C7_Witness ==
    /\ pc = "return" /\ time_exit /\ now >= halt_time
    /\ attempt = 2 /\ args.retries >= 2 /\ Builds = 1

\* C8: with time enforcement, the statement timeout in effect when a build
\* statement is issued is at most the time remaining to the deadline plus
\* the grace period.
C8_TimeoutWithinBudget ==
    (pc = "build" /\ args.enforcetime /\ ~args.dryrun) =>
        /\ statement_timeout > 0
        /\ statement_timeout <= (halt_time - now) + Grace

\* the statements of log that belong to a swap, transaction control
\* included, in the order they were passed to dbquery
InSwap(e) == SwapStmt(e) \/ e.op \in {"BEGIN", "COMMIT"}

SwapTrace == SelectSeq(log, InSwap)

IsPrefix(s, t) == Len(s) <= Len(t) /\ \A i \in 1..Len(s) : s[i] = t[i]

\* the two protocols, for the index being processed
PrimaryKeySwap ==
    << Stmt("BEGIN", NoName, 0),
       Stmt("DROP_CONSTRAINT", idx_name, table),
       Stmt("RENAME", idx_name_new, idx_name),
       Stmt("ADD_PK", idx_name, table),
       Stmt("COMMIT", NoName, 0) >>

PlainSwap ==
    << Stmt("DROP_INDEX", idx_name, 0),
       Stmt("RENAME", idx_name_new, idx_name) >>

Unlogged(e) == Stmt(e.op, e.name, e.arg)

\* C9: the swap statements passed to dbquery for a primary-key index are
\* BEGIN, DROP CONSTRAINT, RENAME, ADD PRIMARY KEY USING INDEX, COMMIT in
\* that order, and for any other index DROP INDEX of the original, then
\* RENAME, without BEGIN or COMMIT; the protocol is complete when the
\* index is counted.
C9_ProtocolByPrimaryKey ==
    LET protocol == IF is_pk THEN PrimaryKeySwap ELSE PlainSwap
        trace == [i \in 1..Len(SwapTrace) |-> Unlogged(SwapTrace[i])]
    IN  /\ IsPrefix(trace, protocol)
        /\ (pc \in {"analyse_done", "finish"}) => trace = protocol
        /\ (pc = "return" /\ idx_valid) => trace = protocol
        /\ (pc = "fetchdef") => is_pk = Get(session, idx_name).primary

C9_Witness ==
    /\ pc = "return" /\ idx_valid /\ is_pk /\ ~args.dryrun
    /\ Len(SwapTrace) = 5
    /\ \A i \in 1..5 : SwapTrace[i].exec

\* C10 as claimed: on dry-run every resolved, non-ignored index takes
\* exactly one attempt and is counted as success, with after-size equal to
\* before-size.
C10_DryRunAlwaysOneAttempt ==
    (args.dryrun /\ pc = "return" /\ idx_name_new # NoName) =>
        /\ idx_valid
        /\ Cardinality(Positions("CREATE")) = 1
        /\ idx_size_after = idx_size_before

\* an attempt of the index being processed was begun
AttemptBegun == Positions("DROP_IF_EXISTS") # {}

\* C10 amended: on dry-run no mutating statement is executed and the
\* database and the session are left as they were, while the lookups are
\* executed; every index for which an attempt begins (retry count >= 1,
\* deadline not reached at the loop top) takes exactly one attempt, with
\* after-size equal to before-size, and process_index returns from it by
\* counting it as success.
C10_DryRunFrame ==
    /\ [](args.dryrun =>
            /\ \A i \in 1..Len(log) :
                    log[i].exec <=> /\ log[i].op \in LookupOps
                                    /\ ~(log[i].op = "SIZE" /\ log[i].name = idx_name_new)
            /\ (pc = "return" /\ AttemptBegun) =>
                    /\ idx_valid
                    /\ attempt = 1
                    /\ Builds = 1
                    /\ Swaps = 1
                    /\ Positions("VALIDITY") # {}
                    /\ idx_size_after = idx_size_before)
    /\ [][args.dryrun =>
            /\ catalog' = catalog
            /\ session' = session
            /\ txstate' = txstate
            /\ statement_timeout' = statement_timeout
            /\ (pc # "return" /\ pc' = "return" /\ AttemptBegun)
                    => idxcount_success' = idxcount_success + 1]_vars

C10_Witness ==
    /\ args.dryrun /\ pc = "return" /\ AttemptBegun /\ idx_valid
    /\ args.retries = 2 /\ is_pk
    /\ idx_size_after = idx_size_before /\ idx_size_before > 0

\* C11 as claimed: when the build statement of an attempt is cancelled by
\* the statement timeout, the run is not aborted and the attempt is taken
\* as an invalid one (the next thing after the validity lookup is the drop
\* of the replacement), whether or not the build left an entry <name>_new
\* (unless the user interrupts the run).
C11_CancelledBuildIsFailedAttempt ==
    [][(pc = "validity" /\ sqlstate = "cancel" /\ pc' \notin {pc, "interrupted"})
            => pc' = "drop_invalid"]_vars

\* C12 as claimed: a statement the server rejects with a database error,
\* lookups included, never ends the run.
C12_GenericErrorNeverFatal == pc = "crashed" => sqlstate # "error"

\* statements of log that drop the replacement: the defensive drop that
\* opens an attempt and the cleanup after an invalid verdict
DefensiveDrops ==
    { i \in Positions("DROP_IF_EXISTS") : log[i].name = idx_name_new }
CleanupDrops ==
    { i \in Positions("DROP_INDEX") : log[i].name = idx_name_new }

\* C13 as claimed: when all R attempts are invalid and the deadline is not
\* reached, exactly R drop statements for the replacement are issued.
C13_ExactlyRetriesDropStatements ==
    (pc = "return" /\ Exhausted) =>
        Cardinality(DefensiveDrops \cup CleanupDrops) = args.retries

\* C13 amended: when all R attempts are invalid and the deadline is not
\* reached, the engine issues exactly R build statements, R defensive
\* drops (IF EXISTS) and R cleanup drops of the replacement, so 2R drop
\* statements in all, and no swap statement; each invalid attempt adds one
\* to the retried counter, R in all, and the succeeded counter is left as
\* it was.
C13_AllInvalidCounts ==
    /\ []((pc = "return" /\ Exhausted) =>
            /\ Builds = args.retries
            /\ Cardinality(DefensiveDrops) = args.retries
            /\ Cardinality(CleanupDrops) = args.retries
            /\ Swaps = 0
            /\ \A i \in 1..Len(log) : ~SwapStmt(log[i])
            /\ idxcount = 1 =>
                    idxcount_retries = args.retries /\ idxcount_success = 0)
    /\ [][/\ idxcount_retries' # idxcount_retries =>
                /\ idxcount_retries' = idxcount_retries + 1
                /\ attempt' = attempt + 1
                /\ ~idx_valid
                /\ idxcount_success' = idxcount_success
          /\ idxcount_success' # idxcount_success =>
                idx_valid /\ idx_valid' /\ pc' = "return"]_vars

C13_Witness ==
    /\ pc = "return" /\ Exhausted /\ args.retries = 2 /\ ~time_exit
    /\ idxcount = 1 /\ idxcount_retries = 2 /\ idxcount_success = 0
    /\ Builds = 2 /\ Cardinality(CleanupDrops) = 2

bloat_totals == <<total_idx_size_before, total_idx_size_after>>

\* C14 as claimed: in every reachable state both bloat totals are zero
\* whenever the succeeded counter is zero.
C14_TotalsZeroWhileNoSuccess ==
    idxcount_success = 0 => bloat_totals = <<0, 0>>

\* C14 amended: the bloat totals never decrease, and both are zero
\* whenever the succeeded counter is zero and no index is between its
\* size lookups and the count of its success (in main, when process_index
\* returns and at the summary); the sizes of an index are added to the
\* totals before its swap, its success is counted after it.
C14_TotalsMonotoneZeroAtRest ==
    /\ []((pc \in {"main", "return", "done"} /\ idxcount_success = 0) =>
            bloat_totals = <<0, 0>>)
    /\ []((idxcount_success = 0 /\ bloat_totals # <<0, 0>>) =>
            /\ idx_valid
            /\ total_idx_size_before = idx_size_before
            /\ total_idx_size_after = idx_size_after)
    /\ [][/\ total_idx_size_before' >= total_idx_size_before
          /\ total_idx_size_after' >= total_idx_size_after]_vars

\* the second success of a run: both totals have grown twice
C14_Witness ==
    /\ pc = "return" /\ idxcount_success = 2 /\ ~args.dryrun
    /\ total_idx_size_before > idx_size_before /\ idx_size_before > 0
    /\ total_idx_size_after > idx_size_after /\ idx_size_after > 0

\* the names of a sequence of index names
Range(s) == { s[i] : i \in 1..Len(s) }

\* C15: index rebuilds do not overlap and start in the supplied order: an
\* index starts only from the driver, after the previous one has returned,
\* and every statement passed to dbquery meanwhile is for that index; the
\* names of the index list are taken in list order, all of them before
\* the first table; the tables are taken in list order, each after the
\* indexes of the previous one; within a table the indexes are taken in
\* ascending name order.
C15_OneIndexAtATimeInOrder ==
    /\ []((tpos > 1 \/ idx_names # <<>>) => ipos > Len(indexlist))
    /\ [](\A i, j \in 1..Len(idx_names) :
                i < j => NameLess(idx_names[i], idx_names[j]))
    /\ [](\A i \in 1..Len(log) :
                \/ log[i].op = "LIST"
                \/ /\ idx_name # NoName
                   /\ log[i].name \in {NoName, idx_name, NewName(idx_name)})
    /\ [][/\ idx_name' # idx_name =>
                /\ pc \in {"main", "return"}
                /\ pc = "main" <=> idx_name = NoName
                /\ pc = "return" <=> idx_name' = NoName
          /\ (pc = "main" /\ idx_name' # NoName) =>
                /\ \A i \in 1..Len(log') : log'[i].op = "LIST"
                /\ ipos <= Len(indexlist) =>
                        /\ idx_name' = indexlist[ipos]
                        /\ ipos' = ipos + 1
                        /\ idx_names' = idx_names
                /\ ipos > Len(indexlist) =>
                        /\ idx_names = <<idx_name'>> \o idx_names'
                        /\ \A n \in Range(idx_names') : NameLess(idx_name', n)
                        /\ ipos' = ipos
          /\ tpos' # tpos =>
                /\ pc = "main" /\ idx_name = NoName
                /\ ipos > Len(indexlist) /\ idx_names = <<>>
                /\ tpos' = tpos + 1
                /\ tabcount' # tabcount =>
                        log'[Len(log')] =
                            Logged(Stmt("LIST", NoName, tablelist[tpos]), TRUE)
                /\ idx_names' # <<>> =>
                        Range(idx_names') = table_indexes(tablelist[tpos])]_vars

\* the first index of the second table, after the index list and the
\* first table are through
C15_Witness ==
    /\ Len(indexlist) = 1 /\ ipos = 2 /\ Len(tablelist) = 2 /\ tpos = 3
    /\ idx_name = ix /\ idx_names # <<>> /\ idxcount >= 2
    /\ pc = "validity" /\ ~args.dryrun

\* C16 as claimed: the exit status is nonzero only when the log file could
\* not be opened; no outcome of a statement leads to a nonzero status.
C16_NonzeroExitOnlyWithoutLogfile ==
    (pc \in Terminal /\ exit_code # 0) => pc = "no_logfile"

\* C17: a replacement <name>_new that exists when an attempt begins is
\* removed before the build: every build statement comes right after the
\* defensive DROP INDEX CONCURRENTLY IF EXISTS <name>_new and every
\* validity lookup right after a build statement; when that drop succeeds
\* no <name>_new exists at the build, a build succeeds only where no
\* <name>_new existed and then leaves a valid one, and the validity result
\* is the validity of the <name>_new the lookup finds - so after a
\* successful drop and build, true is about the index this attempt built.
C17_StaleDroppedBeforeBuild ==
    /\ [](\A i \in 1..Len(log) :
            /\ log[i].op = "CREATE" =>
                    /\ i > 1
                    /\ log[i].name = idx_name_new
                    /\ log[i - 1] = Logged(idx_drop_if_exists_query, log[i].exec)
            /\ log[i].op = "VALIDITY" =>
                    /\ i > 1
                    /\ log[i].name = idx_name_new
                    /\ log[i - 1].op = "CREATE"
                    /\ log[i].exec)
    /\ []((pc = "build" /\ ~args.dryrun /\ sqlstate = "ok") =>
            /\ ~Exists(session, idx_name_new)
            /\ ~Exists(catalog, idx_name_new))
    /\ [][/\ (pc = "build" /\ pc' = "validity" /\ ~args.dryrun) =>
                /\ sqlstate' = "ok" =>
                        /\ ~Exists(session, idx_name_new)
                        /\ Exists(session', idx_name_new)
                        /\ Get(session', idx_name_new).valid
                /\ (sqlstate' # "ok" /\ ~Exists(session, idx_name_new)) =>
                        \A e \in session' : e.name = idx_name_new => ~e.valid
          /\ (pc = "validity" /\ ~args.dryrun /\ pc' \notin {pc, "interrupted"}) =>
                /\ idx_valid' =>
                        /\ Exists(session, idx_name_new)
                        /\ Get(session, idx_name_new).valid
                /\ pc' = "size_before" <=> idx_valid']_vars

\* index ix of table t found valid on its first attempt, in a run whose
\* listing of the table still showed the stale ix_new
C17_Witness ==
    /\ pc = "size_before" /\ ~args.dryrun /\ idx_valid /\ attempt = 1
    /\ idx_name = ix /\ NewName(ix) \in Range(idx_names)
    /\ Exists(catalog, idx_name_new) /\ Get(catalog, idx_name_new).valid
    /\ Builds = 1

\* C18 as claimed: when an index has been counted as success (outside
\* dry-run) its swap has taken effect: the original name exists and is the
\* newly built index, it backs the primary key if the index did, and no
\* <name>_new remains - also when a swap statement failed.
C18_SuccessMeansSwapped ==
    (pc = "return" /\ idx_valid /\ ~args.dryrun) =>
        /\ ~Exists(catalog, idx_name_new)
        /\ Exists(catalog, idx_name)
        /\ Get(catalog, idx_name).size = idx_size_after
        /\ is_pk => Get(catalog, idx_name).primary

\* indexes whose processing ended in one of the three counted outcomes
outcomes_counted == idxcount_success + idxcount_ignored + idxcount_notfound

\* C19: the run counters are consistent: none ever decreases or is reset
\* (the time-exit flag, once set, stays set); the seen counter goes up by
\* one exactly when an index is started, from the driver; an index adds at
\* most one to succeeded + ignored + not-found and returns with that, so
\* that sum never exceeds seen; the retried counter goes up by one per
\* invalid attempt, at most the retry count per index.
C19_CountersConsistent ==
    /\ [](outcomes_counted <= idxcount)
    /\ [](idxcount_retries <= args.retries * (idxcount - idxcount_ignored - idxcount_notfound))
    /\ [](attempt <= args.retries + 1)
    /\ [][/\ \A i \in 1..Len(runcounts) : runcounts'[i] >= runcounts[i]
          /\ time_exit => time_exit'
          /\ idxcount' # idxcount =>
                /\ idxcount' = idxcount + 1
                /\ pc = "main" /\ idx_name = NoName /\ idx_name' # NoName
          /\ (idx_name = NoName /\ idx_name' # NoName /\ ~time_exit') =>
                idxcount' = idxcount + 1
          /\ outcomes_counted' # outcomes_counted =>
                /\ outcomes_counted' = outcomes_counted + 1
                /\ pc' = "return"
          /\ idxcount_retries' # idxcount_retries =>
                /\ idxcount_retries' = idxcount_retries + 1
                /\ attempt \in 1..args.retries
                /\ attempt' = attempt + 1
          /\ attempt' < attempt => pc = "return"]_vars

\* a run over a table that ended with one index swapped, one not found
\* and one given up after an invalid attempt
C19_Witness ==
    /\ pc = "done" /\ tabcount = 1 /\ idxcount = 3
    /\ idxcount_success = 1 /\ idxcount_notfound = 1 /\ idxcount_retries >= 1
    /\ outcomes_counted < idxcount

\* C20 as claimed: no index takes more build attempts than the retry
\* count, and a run that has connected and is not interrupted by the user
\* eventually closes the connection and reaches the summary, whatever the
\* server answers to the statements.
C20_RunReachesSummary ==
    /\ [](Builds <= args.retries)
    /\ (pc = "main") ~> (pc \in {"done", "interrupted"})

====
